---- MODULE Spec2Model ----
(***************************************************************************)
(* Model of front/script.js: the voice-input toggle of the accessible      *)
(* elevator page.  The page is single-threaded and event-driven: every     *)
(* action below is one event-loop task (a click, the continuation of an    *)
(* await, a MediaRecorder event).                                          *)
(***************************************************************************)
EXTENDS Integers, Sequences, FiniteSets, TLC

\* ------------------------------------------------------------------ bounds
\* number of start attempts (getUserMedia calls) explored
MaxSessions == 2
\* number of dataavailable events explored, all recorders together
MaxFrags == 1

Ids == 1..MaxSessions

\* ------------------------------------------------------- JavaScript values
JsUndefined == [t |-> "undefined", n |-> 0, s |-> ""]
JsNull == [t |-> "null", n |-> 0, s |-> ""]
JsNum(k) == [t |-> "number", n |-> k, s |-> ""]
JsStr(str) == [t |-> "string", n |-> 0, s |-> str]

\* ToBoolean, as applied by `if (result.floor)` and by `||`
Truthy(v) ==
    CASE v.t = "number" -> v.n # 0
      [] v.t = "string" -> v.s # ""
      [] OTHER -> FALSE

Digit(d) ==
    CASE d = 0 -> "0" [] d = 1 -> "1" [] d = 2 -> "2" [] d = 3 -> "3"
      [] d = 4 -> "4" [] d = 5 -> "5" [] d = 6 -> "6" [] d = 7 -> "7"
      [] d = 8 -> "8" [] OTHER -> "9"

RECURSIVE NumToStr(_)
NumToStr(k) == IF k < 10 THEN Digit(k) ELSE NumToStr(k \div 10) \o Digit(k % 10)

\* ToString, as applied by a template literal `${v}` and by the utterance text
JsToString(v) ==
    CASE v.t = "number" -> NumToStr(v.n)
      [] v.t = "string" -> v.s
      [] v.t = "null" -> "null"
      [] OTHER -> "undefined"

\* ---------------------------------------------------- inputs of the model
\* values the `floor` field of a response body may carry
FloorVals == {JsUndefined, JsNull, JsStr(""), JsNum(0), JsNum(12),
              JsStr("0"), JsStr("12")}
\* values the `message` field of a response body may carry
MessageVals == {JsUndefined, JsStr(""), JsStr("Could not understand audio")}
\* parsed response bodies: JSON objects, and the JSON document `null`; a body
\* whose floor the code accepts is listed once, without a message, since line
\* 70 is the only reader of the message
JsonObjects ==
    {o \in [obj : {TRUE}, floor : FloorVals, message : MessageVals] :
        Truthy(o.floor) => o.message = JsUndefined}
JsonNull == [obj |-> FALSE, floor |-> JsUndefined, message |-> JsUndefined]
Results == JsonObjects \cup {JsonNull}
\* e.message of a rejected getUserMedia
AcquireReasons == {"Permission denied", "Requested device not found"}
\* e.message of a rejected fetch / response.json() / property read on null
FetchReasons == {"Failed to fetch"}
ParseReasons == {"Unexpected end of JSON input"}
TypeErrorReasons == {"Cannot read properties of null (reading 'floor')"}
\* e.message of the NotSupportedError thrown by new MediaRecorder
CtorReasons == {"mimeType is not supported"}

\* ------------------------------------------------------------ fixed texts
WelcomeText == "Welcome to the accessible elevator app. Activate the button to start voice input."
StoppedText == "Voice input stopped."
PromptText == "Please say the floor number."
MicErrorPrefix == "Error accessing microphone: "
ProcessErrorPrefix == "Error processing voice input: "
NoFloorText == "No valid floor number recognized."
StartLabel == "Start Voice Input"
StopLabel == "Stop Listening"
\* content of the page before the script touches it (markup is not in src/)
Markup == "<markup>"

VARIABLES
    isListening,        \* let isListening
    mediaRecorder,      \* let mediaRecorder: 0 is null, else a recorder id
    audioChunks,        \* let audioChunks: sequence of fragments <<recorder, k>>
    buttonText,         \* voiceButton.textContent
    ariaPressed,        \* voiceButton aria-pressed
    selectedFloorText,  \* selectedFloorDiv.textContent
    selectedFloorAria,  \* selectedFloorDiv aria-label
    utterance,          \* the text of the most recent call of speak
    speechQueue,        \* window.speechSynthesis: the utterances speaking or queued
    speakCount,         \* number of calls of speak so far
    consoleLog,         \* last line written by console.log ("" if none)
    logCount,           \* number of console.log calls so far
    webmSupported,      \* whether this browser's MediaRecorder accepts audio/webm
    acq,                \* per start attempt: state of its getUserMedia promise
    streamLive,         \* per start attempt: its MediaStream has live tracks
    recState,           \* per start attempt: state of its MediaRecorder
    fragCount,          \* per recorder: number of dataavailable events delivered
    stopped,            \* the recorders stop() was called on, in the order of the calls
    displayOwner,       \* the session whose response selectFloor last ran for (0: none)
    req                 \* per recorder: the sendAudioToAPI call its onstop made:
                        \* state none, fetching, parsing, done (the try block
                        \* completed) or failed (the catch ran), and the Blob
                        \* it holds while it runs

vars == <<isListening, mediaRecorder, audioChunks, buttonText, ariaPressed,
          selectedFloorText, selectedFloorAria, utterance, speechQueue, speakCount,
          consoleLog, logCount, webmSupported, acq, streamLive, recState,
          fragCount, stopped, displayOwner, req>>

dom == <<buttonText, ariaPressed, selectedFloorText, selectedFloorAria>>
session == <<isListening, mediaRecorder, audioChunks>>
device == <<acq, streamLive, recState, fragCount>>
voice == <<utterance, speechQueue, speakCount>>
console == <<consoleLog, logCount>>
order == <<stopped, displayOwner>>

NoRequest == [state |-> "none", body |-> <<>>]
\* a call of sendAudioToAPI that has returned: its formData is garbage
Settled(state) == [state |-> state, body |-> <<>>]

\* speechSynthesis.cancel(): removes every utterance from the queue
SynthCancel(queue) == <<>>

\* speechSynthesis.speak(u): adds u to the end of the queue
SynthSpeak(queue, text) == Append(queue, text)

\* speak without the call of cancel()
Speak_NoCancel(text) ==
    /\ utterance' = text
    /\ speechQueue' = SynthSpeak(speechQueue, text)
    /\ speakCount' = speakCount + 1

\* speak(text): cancel() drops whatever is being spoken, speak() starts text
Speak(text) ==
    /\ utterance' = text
    /\ speechQueue' = SynthSpeak(SynthCancel(speechQueue), text)
    /\ speakCount' = speakCount + 1

Init ==
    /\ isListening = FALSE
    /\ mediaRecorder = 0
    /\ audioChunks = <<>>
    /\ buttonText = Markup
    /\ ariaPressed = Markup
    /\ selectedFloorText = Markup
    /\ selectedFloorAria = Markup
    /\ utterance = WelcomeText
    /\ speechQueue = <<WelcomeText>>
    /\ speakCount = 1
    /\ consoleLog = ""
    /\ logCount = 0
    /\ webmSupported \in BOOLEAN
    /\ acq = [i \in Ids |-> "none"]
    /\ streamLive = [i \in Ids |-> FALSE]
    /\ recState = [i \in Ids |-> "none"]
    /\ fragCount = [i \in Ids |-> 0]
    /\ stopped = <<>>
    /\ displayOwner = 0
    /\ req = [i \in Ids |-> NoRequest]

\* ---------------------------------------------------- the click handler
\* MediaRecorder.stop(): a recording recorder stops gathering and queues its
\* final dataavailable and stop events
RecorderStop(rs, r) ==
    IF r \in Ids /\ rs[r] = "recording" THEN [rs EXCEPT ![r] = "stopping"] ELSE rs

\* the stop branch without its announcement
ToggleStop_Silent ==
    /\ isListening
    /\ recState' = RecorderStop(recState, mediaRecorder)
    /\ stopped' = Append(stopped, mediaRecorder)
    /\ UNCHANGED displayOwner
    /\ isListening' = FALSE
    /\ buttonText' = StartLabel
    /\ ariaPressed' = "false"
    /\ UNCHANGED <<mediaRecorder, audioChunks, selectedFloorText, selectedFloorAria,
                   voice, console, webmSupported, acq, streamLive, fragCount, req>>

\* the stop branch without isListening = false
ToggleStop_KeepsFlag ==
    /\ isListening
    /\ recState' = RecorderStop(recState, mediaRecorder)
    /\ stopped' = Append(stopped, mediaRecorder)
    /\ UNCHANGED displayOwner
    /\ buttonText' = StartLabel
    /\ ariaPressed' = "false"
    /\ Speak(StoppedText)
    /\ UNCHANGED <<isListening, mediaRecorder, audioChunks, selectedFloorText,
                   selectedFloorAria, console, webmSupported, acq, streamLive,
                   fragCount, req>>

\* if (isListening) { ... }
ToggleStop ==
    /\ isListening
    /\ recState' = RecorderStop(recState, mediaRecorder)
    /\ stopped' = Append(stopped, mediaRecorder)
    /\ UNCHANGED displayOwner
    /\ isListening' = FALSE
    /\ buttonText' = StartLabel
    /\ ariaPressed' = "false"
    /\ Speak(StoppedText)
    /\ UNCHANGED <<mediaRecorder, audioChunks, selectedFloorText, selectedFloorAria,
                   console, webmSupported, acq, streamLive, fragCount, req>>

\* else { try { await navigator.mediaDevices.getUserMedia(...): the handler
\* suspends with the promise pending
ToggleStart ==
    /\ ~isListening
    /\ \E a \in Ids :
        /\ acq[a] = "none"
        /\ \A b \in Ids : b < a => acq[b] # "none"
        /\ acq' = [acq EXCEPT ![a] = "pending"]
    /\ UNCHANGED <<session, dom, voice, console, webmSupported, streamLive,
                   recState, fragCount, req>>
    /\ UNCHANGED order

Click == ToggleStop \/ ToggleStart

\* ------------------------------------- continuation of await getUserMedia
\* the start branch without setAttribute('aria-pressed', 'true')
StartRecording_NoAria(a) ==
    /\ mediaRecorder' = a
    /\ audioChunks' = <<>>
    /\ recState' = [recState EXCEPT ![a] = "recording"]
    /\ isListening' = TRUE
    /\ buttonText' = StopLabel
    /\ ariaPressed' = ariaPressed
    /\ Speak(PromptText)

\* new MediaRecorder(stream, {mimeType}) succeeded: lines 32-48
StartRecording(a) ==
    /\ mediaRecorder' = a
    /\ audioChunks' = <<>>
    /\ recState' = [recState EXCEPT ![a] = "recording"]
    /\ isListening' = TRUE
    /\ buttonText' = StopLabel
    /\ ariaPressed' = "true"
    /\ Speak(PromptText)

\* new MediaRecorder throws NotSupportedError: control goes to the catch
ConstructorThrows(a) ==
    /\ \E reason \in CtorReasons : Speak(MicErrorPrefix \o reason)
    /\ UNCHANGED <<session, recState, buttonText, ariaPressed>>

\* getUserMedia resolved with a stream
AcquireResolved(a) ==
    /\ acq[a] = "pending"
    /\ acq' = [acq EXCEPT ![a] = "resolved"]
    /\ streamLive' = [streamLive EXCEPT ![a] = TRUE]
    /\ IF webmSupported THEN StartRecording(a) ELSE ConstructorThrows(a)
    /\ UNCHANGED <<selectedFloorText, selectedFloorAria, console, webmSupported,
                   fragCount, req>>
    /\ UNCHANGED order

\* the catch announcing a fixed text, without e.message
MicrophoneError_NoReason(reason) ==
    /\ Speak("Error accessing microphone")
    /\ UNCHANGED <<session, dom, console, streamLive, recState, fragCount, req>>

\* catch (e) { speak('Error accessing microphone: ' + e.message) }
MicrophoneError(reason) ==
    /\ Speak(MicErrorPrefix \o reason)
    /\ UNCHANGED <<session, dom, console, streamLive, recState, fragCount, req>>

\* getUserMedia rejected
AcquireRejected(a, reason) ==
    /\ acq[a] = "pending"
    /\ acq' = [acq EXCEPT ![a] = "rejected"]
    /\ MicrophoneError(reason)
    /\ UNCHANGED <<webmSupported, order>>

\* ------------------------------------------------- MediaRecorder events
\* number of dataavailable events delivered so far
RECURSIVE SumUpTo(_, _)
SumUpTo(f, k) == IF k = 0 THEN 0 ELSE f[k] + SumUpTo(f, k - 1)
FragTotal(f) == SumUpTo(f, MaxSessions)

\* mediaRecorder.ondataavailable: the closure pushes onto whatever array the
\* variable audioChunks holds now
OnDataAvailable(r) ==
    /\ recState[r] \in {"recording", "stopping"}
    /\ FragTotal(fragCount) < MaxFrags
    /\ fragCount' = [fragCount EXCEPT ![r] = @ + 1]
    /\ audioChunks' = Append(audioChunks, <<r, fragCount[r] + 1>>)
    /\ UNCHANGED <<isListening, mediaRecorder, dom, voice, console, webmSupported,
                   acq, streamLive, recState, req>>
    /\ UNCHANGED order

\* onstop sending nothing when no fragment was buffered
OnStop_SkipsEmpty(r) ==
    /\ recState[r] = "stopping"
    /\ recState' = [recState EXCEPT ![r] = "inactive"]
    /\ req' = IF audioChunks = <<>> THEN req
              ELSE [req EXCEPT ![r] = [state |-> "fetching", body |-> audioChunks]]
    /\ UNCHANGED <<session, dom, voice, console, webmSupported, acq, streamLive,
                   fragCount>>
    /\ UNCHANGED order

\* mediaRecorder.onstop: new Blob(audioChunks), then sendAudioToAPI up to its
\* first await (the POST is issued)
OnStop(r) ==
    /\ recState[r] = "stopping"
    /\ recState' = [recState EXCEPT ![r] = "inactive"]
    /\ req' = [req EXCEPT ![r] = [state |-> "fetching", body |-> audioChunks]]
    /\ UNCHANGED <<session, dom, voice, console, webmSupported, acq, streamLive,
                   fragCount>>
    /\ UNCHANGED order

\* ---------------------------------------------------------- sendAudioToAPI
\* selectFloor(floor)
SelectFloor(floor) ==
    /\ selectedFloorText' = "Selected: Floor " \o JsToString(floor)
    /\ selectedFloorAria' = "Selected floor: " \o JsToString(floor)
    /\ Speak("Selected floor " \o JsToString(floor))
    /\ consoleLog' = "Simulated Bluetooth command: FLOOR:" \o JsToString(floor)
    /\ logCount' = logCount + 1

\* result.message spoken as it is, without the || fallback
FallbackText_NoFallback(message) == JsToString(message)

\* result.message || 'No valid floor number recognized.'
FallbackText(message) ==
    IF Truthy(message) THEN JsToString(message) ELSE NoFloorText

\* the catch falling through to the no-floor announcement
ProcessingError_AsNoFloor(reason) ==
    /\ Speak(NoFloorText)
    /\ UNCHANGED <<selectedFloorText, selectedFloorAria, console>>

\* catch (e) { speak('Error processing voice input: ' + e.message) }
ProcessingError(reason) ==
    /\ Speak(ProcessErrorPrefix \o reason)
    /\ UNCHANGED <<selectedFloorText, selectedFloorAria, console>>

\* selectFloor called without the test of result.floor
HandleResult_AlwaysSelects(result) ==
    IF ~result.obj
    THEN \E reason \in TypeErrorReasons : ProcessingError(reason)
    ELSE SelectFloor(result.floor)

\* lines 67-71, with the TypeError of reading .floor of null going to the catch
HandleResult(result) ==
    IF ~result.obj
    THEN \E reason \in TypeErrorReasons : ProcessingError(reason)
    ELSE IF Truthy(result.floor)
         THEN SelectFloor(result.floor)
         ELSE /\ Speak(FallbackText(result.message))
              /\ UNCHANGED <<selectedFloorText, selectedFloorAria, console>>

\* await fetch(...) resolved with a response (of any HTTP status)
FetchResolved(r) ==
    /\ req[r].state = "fetching"
    /\ req' = [req EXCEPT ![r].state = "parsing"]
    /\ UNCHANGED <<session, dom, voice, console, webmSupported, device>>
    /\ UNCHANGED order

\* await fetch(...) rejected
FetchRejected(r, reason) ==
    /\ req[r].state = "fetching"
    /\ req' = [req EXCEPT ![r] = Settled("failed")]
    /\ ProcessingError(reason)
    /\ UNCHANGED <<session, buttonText, ariaPressed, webmSupported, device, order>>

\* await response.json() resolved
JsonResolved(r, result) ==
    /\ req[r].state = "parsing"
    /\ req' = [req EXCEPT ![r] = Settled(IF result.obj THEN "done" ELSE "failed")]
    /\ HandleResult(result)
    /\ displayOwner' = IF logCount' # logCount THEN r ELSE displayOwner
    /\ UNCHANGED <<session, buttonText, ariaPressed, webmSupported, device, stopped>>

\* await response.json() rejected
JsonRejected(r, reason) ==
    /\ req[r].state = "parsing"
    /\ req' = [req EXCEPT ![r] = Settled("failed")]
    /\ ProcessingError(reason)
    /\ UNCHANGED <<session, buttonText, ariaPressed, webmSupported, device, order>>

\* the utterance being spoken ends; the next one queued, if any, starts
UtteranceEnd ==
    /\ speechQueue # <<>>
    /\ speechQueue' = Tail(speechQueue)
    /\ UNCHANGED <<session, dom, utterance, speakCount, console, webmSupported,
                   device, req>>
    /\ UNCHANGED order

Next ==
    \/ Click
    \/ UtteranceEnd
    \/ \E a \in Ids : AcquireResolved(a)
    \/ \E a \in Ids, reason \in AcquireReasons : AcquireRejected(a, reason)
    \/ \E r \in Ids : OnDataAvailable(r)
    \/ \E r \in Ids : OnStop(r)
    \/ \E r \in Ids : FetchResolved(r)
    \/ \E r \in Ids, reason \in FetchReasons : FetchRejected(r, reason)
    \/ \E r \in Ids, result \in Results : JsonResolved(r, result)
    \/ \E r \in Ids, reason \in ParseReasons : JsonRejected(r, reason)

Spec == Init /\ [][Next]_vars

\* every event the environment owes is eventually delivered
FairSpec ==
    /\ Spec
    /\ \A i \in Ids :
        /\ WF_vars(AcquireResolved(i) \/ \E reason \in AcquireReasons : AcquireRejected(i, reason))
        /\ WF_vars(OnStop(i))
        /\ WF_vars(FetchResolved(i) \/ \E reason \in FetchReasons : FetchRejected(i, reason))
        /\ WF_vars((\E result \in Results : JsonResolved(i, result))
                     \/ \E reason \in ParseReasons : JsonRejected(i, reason))

TypeOK ==
    /\ isListening \in BOOLEAN
    /\ mediaRecorder \in {0} \cup Ids
    /\ acq \in [Ids -> {"none", "pending", "resolved", "rejected"}]
    /\ recState \in [Ids -> {"none", "recording", "stopping", "inactive"}]
    /\ fragCount \in [Ids -> 0..MaxFrags]
    /\ displayOwner \in {0} \cup Ids
    /\ \A i \in DOMAIN stopped : stopped[i] \in Ids
    /\ \A i \in Ids : req[i].state \in {"none", "fetching", "parsing", "done", "failed"}

\* ================================================================ stages
\* The stages of the specification, read off the program's state.
Pending == {a \in Ids : acq[a] = "pending"}
Recording == {r \in Ids : recState[r] = "recording"}
Stopping == {r \in Ids : recState[r] = "stopping"}
InFlight == {r \in Ids : req[r].state \in {"fetching", "parsing"}}
Listening == isListening
Finalizing == Stopping # {}
Transcribing == InFlight # {}
Idle == ~Listening /\ ~Finalizing /\ ~Transcribing

\* the fragments recorder r has delivered so far, in arrival order
Delivered(r) == [k \in 1..fragCount[r] |-> <<r, k>>]

Contains(text, sub) ==
    \E i \in 1..(Len(text) - Len(sub) + 1) : SubSeq(text, i, i + Len(sub) - 1) = sub

\* ================================================================ claims

\* C1: there is never more than one pending device acquisition, nor more than
\* one recorder capturing, at once.
C1_AtMostOneSession ==
    /\ Cardinality(Pending) <= 1
    /\ Cardinality(Recording) <= 1

\* C2: while the previous session is Finalizing or Transcribing no step begins
\* a device acquisition, and two transcription requests are never in flight
\* at the same time.
C2_StartOnlyFromIdle ==
    [][/\ (Finalizing \/ Transcribing) => Pending' \subseteq Pending
       /\ Cardinality(InFlight') <= 1]_vars

\* C3: the payload a recorder's stop hands to sendAudioToAPI is exactly the
\* sequence of fragments that recorder delivered, in arrival order.
C3_PayloadIsOwnFragments ==
    \A r \in InFlight : req[r].body = Delivered(r)

\* C4: the machine is never in two of the stages Listening, Finalizing,
\* Transcribing at once (Idle is the absence of all three, and Announcing
\* happens inside the step that ends Transcribing).
C4_OneStageAtATime ==
    /\ ~(Listening /\ Finalizing)
    /\ ~(Listening /\ Transcribing)
    /\ ~(Finalizing /\ Transcribing)

\* C5: whenever the controller is Idle with no acquisition pending, every
\* acquired stream has had its recorder stopped: none is left capturing and
\* none was left without a recorder.
C5_DeviceReleasedWhenIdle ==
    (Idle /\ Pending = {}) =>
        \A a \in Ids : streamLive[a] => recState[a] = "inactive"

\* C6: while Listening, no step makes a further acquisition take effect and no
\* step clears the fragment buffer; a click can only stop.
C6_StartIdempotentWhileListening ==
    [][isListening =>
          /\ streamLive' = streamLive
          /\ Recording' \subseteq Recording
          /\ Len(audioChunks') >= Len(audioChunks)
          /\ Pending' \subseteq Pending]_vars

\* C7: a rejected getUserMedia leaves isListening, the button label,
\* aria-pressed, the recorders and the requests as they were (an Idle machine
\* stays Idle), and produces exactly one announcement, which contains the
\* failure reason.
C7_AcquisitionFailureStaysIdle ==
    [][\A a \in Ids : (acq[a] = "pending" /\ acq'[a] = "rejected") =>
        \A reason \in AcquireReasons :
          AcquireRejected(a, reason) =>
              /\ isListening' = isListening
              /\ Idle => Idle'
              /\ buttonText' = buttonText
              /\ ariaPressed' = ariaPressed
              /\ recState' = recState
              /\ mediaRecorder' = mediaRecorder
              /\ req' = req
              /\ speakCount' = speakCount + 1
              /\ Contains(utterance', reason)
              /\ utterance' = MicErrorPrefix \o reason]_vars

\* C7 witness: an acquisition was refused for lack of permission, the machine
\* is Idle with its button untouched and the refusal is being announced.
C7_Witness ==
    /\ \E a \in Ids : acq[a] = "rejected"
    /\ Idle
    /\ buttonText = Markup
    /\ utterance = MicErrorPrefix \o "Permission denied"
    /\ speakCount = 2

\* C8: when fetch rejects or the body cannot be parsed, exactly one
\* announcement is produced, it is the processing-error message, no request is
\* issued again, the display and the command log are untouched, and the
\* session's request is over without a capture having begun.
C8_RequestFailureAnnouncedOnce ==
    [][\A r \in Ids : (req[r].state # "failed" /\ req'[r].state = "failed") =>
        \A reason \in FetchReasons \cup ParseReasons :
          (FetchRejected(r, reason) \/ JsonRejected(r, reason)) =>
              /\ speakCount' = speakCount + 1
              /\ utterance' = ProcessErrorPrefix \o reason
              /\ selectedFloorText' = selectedFloorText
              /\ selectedFloorAria' = selectedFloorAria
              /\ console' = console
              /\ InFlight' = InFlight \ {r}
              /\ \A q \in Ids \ {r} : req'[q] = req[q]
              /\ <<session, device>>' = <<session, device>>
              /\ (InFlight = {r} /\ ~Listening /\ ~Finalizing) => Idle']_vars

\* C8 witness: a session's request failed, the machine is Idle again, nothing
\* was ever displayed and the failure is being announced.
C8_Witness ==
    /\ \E r \in Ids : req[r].state = "failed" /\ fragCount[r] > 0
    /\ Idle
    /\ selectedFloorText = Markup
    /\ logCount = 0
    /\ utterance = ProcessErrorPrefix \o "Failed to fetch"

\* the floor identifiers of the claim: numeric and string, 0 and "0" included
FloorIds == {JsNum(0), JsNum(12), JsStr("0"), JsStr("12")}

\* C9: a response whose floor field carries a floor identifier sets the
\* display to "Selected: Floor <floor>", produces exactly one announcement
\* "Selected floor <floor>" and exactly one command log containing <floor>.
C9_FloorSelected ==
    [][\A r \in Ids : (req[r].state = "parsing" /\ req'[r].state = "done") =>
        \A result \in JsonObjects :
          (result.floor \in FloorIds /\ JsonResolved(r, result)) =>
              /\ selectedFloorText' = "Selected: Floor " \o JsToString(result.floor)
              /\ speakCount' = speakCount + 1
              /\ utterance' = "Selected floor " \o JsToString(result.floor)
              /\ logCount' = logCount + 1
              /\ Contains(consoleLog', JsToString(result.floor))]_vars

\* the floor fields that carry no usable floor: absent, null, empty
NoUsableFloor == {JsUndefined, JsNull, JsStr("")}

\* what a response with no usable floor does, given the text it must announce
NoFloorOutcome(text) ==
    /\ speakCount' = speakCount + 1
    /\ utterance' = text
    /\ selectedFloorText' = selectedFloorText
    /\ selectedFloorAria' = selectedFloorAria
    /\ console' = console

\* a recorder's stop event always issues a request, whatever the buffer holds
StopAlwaysPosts ==
    \A r \in Ids : (recState[r] = "stopping" /\ recState'[r] = "inactive") =>
        req'[r].state = "fetching" /\ req'[r].body = audioChunks

\* C10 as stated: with no usable floor the announcement is the server's
\* message whenever the message field is present, the fallback otherwise.
C10_MessageWhenPresent ==
    [][/\ \A r \in Ids : (req[r].state = "parsing" /\ req'[r].state = "done") =>
          \A result \in JsonObjects :
            (result.floor \in NoUsableFloor /\ JsonResolved(r, result)) =>
                NoFloorOutcome(IF result.message # JsUndefined
                               THEN JsToString(result.message)
                               ELSE NoFloorText)
       /\ StopAlwaysPosts]_vars

\* C10 amended: with no usable floor the announcement is the server's message
\* when the message field is present and not empty, the fallback otherwise;
\* exactly one announcement, display and command log untouched; a stop with an
\* empty buffer still issues its request.
C10_MessageWhenNonEmpty ==
    [][/\ \A r \in Ids : (req[r].state = "parsing" /\ req'[r].state = "done") =>
          \A result \in JsonObjects :
            (result.floor \in NoUsableFloor /\ JsonResolved(r, result)) =>
                NoFloorOutcome(IF result.message \notin {JsUndefined, JsStr("")}
                               THEN JsToString(result.message)
                               ELSE NoFloorText)
       /\ StopAlwaysPosts]_vars

\* C10 witness: a session stopped with an empty buffer (no fragment was ever
\* delivered) got a response without a floor; the server's message is being announced and nothing is displayed.
C10_Witness ==
    /\ \E r \in Ids : req[r].state = "done"
    /\ \A r \in Ids : fragCount[r] = 0
    /\ utterance = "Could not understand audio"
    /\ selectedFloorText = Markup
    /\ logCount = 0

\* the POSTs issued so far, and the recorder stop events delivered so far
Posted == {r \in Ids : req[r].state # "none"}
StopDelivered == {r \in Ids : recState[r] = "inactive"}

\* C11: the POSTs issued are exactly the recorder stop events delivered, one
\* per session: a session posts in the step that delivers its stop event, a
\* session that has posted never posts again, and a session that was never
\* started or whose stop event never came has not posted.
C11_OnePostPerStop ==
    [][/\ Posted' = StopDelivered'
       /\ Cardinality(Posted') = Cardinality(StopDelivered')
       /\ \A r \in Ids :
            /\ (r \in StopDelivered' \ StopDelivered) =>
                   (recState[r] = "stopping" /\ req'[r].state = "fetching")
            /\ (r \in Posted) => req'[r].state # "fetching" \/ req[r].state = "fetching"
            /\ (req'[r].state = "fetching" /\ req[r].state = "fetching") =>
                   req'[r] = req[r]]_vars

\* C11 witness: two sessions were stopped, one of them with an empty buffer,
\* and each has issued its POST.
C11_Witness ==
    /\ Cardinality(Posted) = 2
    /\ Cardinality(StopDelivered) = 2
    /\ \E r \in Ids : fragCount[r] = 0

\* C12: the display (text and aria-label) changes only in a step in which a
\* response carrying a floor the code accepts is handled.
C12_DisplayOnlyOnFloor ==
    [][(selectedFloorText' # selectedFloorText \/ selectedFloorAria' # selectedFloorAria) =>
          \E r \in Ids : /\ req[r].state = "parsing"
                         /\ \E result \in JsonObjects :
                              Truthy(result.floor) /\ JsonResolved(r, result)]_vars

\* C12 witness: a floor was displayed, and a later stop, whose announcement is
\* now the current one, has left it on display.
C12_Witness ==
    /\ selectedFloorText = "Selected: Floor 12"
    /\ utterance = StoppedText
    /\ logCount = 1

\* C14: a session's request is issued only by its recorder's stop event, which
\* comes only after its stop was requested, never while its recorder is still
\* capturing; the stop request is a step that announces "Voice input stopped.",
\* and the session's result is announced in a later step, when its request
\* settles.
C14_RequestAfterStop ==
    [][\A r \in Ids :
          /\ (recState[r] = "recording" /\ recState'[r] # "recording") =>
                 /\ recState'[r] = "stopping"
                 /\ utterance' = StoppedText
                 /\ speakCount' = speakCount + 1
                 /\ req'[r].state = "none"
          /\ (req[r].state = "none" /\ req'[r].state # "none") =>
                 /\ recState[r] = "stopping"
                 /\ recState'[r] = "inactive"
                 /\ req'[r].state = "fetching"
                 /\ voice' = voice
          /\ (r \in InFlight /\ r \notin InFlight') =>
                 /\ recState[r] = "inactive"
                 /\ speakCount' = speakCount + 1
          /\ (r \in Posted') => recState'[r] = "inactive"]_vars

\* C14 witness: one session ran start, stop, request, response; its result is
\* the fourth announcement, after the welcome, the prompt and the stop.
C14_Witness ==
    /\ \E r \in Ids : req[r].state = "done" /\ recState[r] = "inactive"
    /\ utterance = "Selected floor 12"
    /\ speakCount = 4
    /\ ~isListening

\* C16: the button shows 'Stop Listening' with aria-pressed 'true' exactly when
\* isListening is true; when it is false the button shows 'Start Voice Input'
\* with aria-pressed 'false', or is as the markup left it if no toggle has yet
\* changed the state.
C16_ButtonMatchesFlag ==
    /\ isListening <=> (ariaPressed = "true" /\ buttonText = StopLabel)
    /\ isListening <=> (ariaPressed = "true" \/ buttonText = StopLabel)
    /\ ~isListening =>
          \/ (ariaPressed = "false" /\ buttonText = StartLabel)
          \/ (ariaPressed = Markup /\ buttonText = Markup
                /\ \A r \in Ids : recState[r] = "none")

\* C16 witness: a second capture is running after a first one was stopped, the
\* button pressed again.
C16_Witness ==
    /\ isListening
    /\ ariaPressed = "true"
    /\ buttonText = StopLabel
    /\ \E r \in Ids : recState[r] \in {"stopping", "inactive"}

\* C17: whenever isListening is true, mediaRecorder is a recorder that was
\* started and has not been stopped.
C17_ListeningHasLiveRecorder ==
    isListening => (mediaRecorder \in Ids /\ recState[mediaRecorder] = "recording")

\* C17 witness: the flag is true after a double click of which one acquisition
\* failed and the other succeeded.
C17_Witness ==
    /\ isListening
    /\ \E a \in Ids : acq[a] = "rejected"
    /\ mediaRecorder \in Ids
    /\ recState[mediaRecorder] = "recording"

\* C13: speechSynthesis never holds more than one utterance, and the one it
\* holds is the text of the most recent call of speak; every call of speak
\* leaves exactly its own text in the queue.
C13_OneAnnouncement ==
    /\ Len(speechQueue) <= 1
    /\ speechQueue # <<>> => speechQueue = <<utterance>>

\* C13 witness: the stop announcement was requested while the prompt had not
\* been heard out, and it is the only utterance left.
C13_Witness ==
    /\ speechQueue = <<StoppedText>>
    /\ utterance = StoppedText
    /\ speakCount = 3

\* stop() was called on recorder r before it was called on recorder q
StoppedBefore(r, q) ==
    \E i, j \in DOMAIN stopped : i < j /\ stopped[i] = r /\ stopped[j] = q

\* C15: the response of a session never writes the display once the floor of a
\* session stopped later has been shown, so that the display ends as the floor
\* of the most recently stopped session whose response carried one.
C15_LatestSessionWins ==
    [][\A r \in Ids :
          (logCount' # logCount /\ displayOwner' = r) =>
              ~(displayOwner \in Ids /\ StoppedBefore(r, displayOwner))]_vars

====
